---- MODULE Spec2Model ----
(***************************************************************************)
(* Model of the message delivery and aggregation core of telebot-gemini:   *)
(*   - markdown_utils.ensure_valid_markdown        (markup balancer)       *)
(*   - bot_handlers.send_long_message, lines 776-800 (chunk splitter)      *)
(*     and lines 763-775, 802-907 (entry and send loop)                    *)
(*   - bot_handlers.handle_photo_message / process_media_group_callback    *)
(*     (media-group aggregator with its debounce job; the flush of a       *)
(*     popped buffer: prompt, fetches, AI call)                            *)
(* Texts are sequences of one-character strings.                           *)
(***************************************************************************)
EXTENDS Integers, Sequences, FiniteSets, TLC

VARIABLES
    \* ---- markup balancer (ensure_valid_markdown applied once and twice)
    md_pc, md_text, md_once, md_twice,
    \* ---- chunk splitter (send_long_message, lines 776-800)
    sp_pc, text_to_send, limit, line_i, chunks, current_chunk,
    \* ---- media-group aggregator
    media_groups,       \* context.bot_data['media_groups']: chat_id -> media_group_id -> items
    notified_overflow,  \* the keys (chat_id, media_group_id) whose notified_overflow_ flag is set
    job_queue,          \* the pending jobs of context.job_queue
    callbacks,          \* process_media_group_callback tasks: fired, not yet returned
    handlers,           \* handle_photo_message tasks suspended in reply_text (line 372)
    now,                \* the clock
    arrivals,           \* history: the number of photo updates handled in the behaviour
    appended,           \* history: the number of items appended to a buffer so far
    dropped,            \* history: how many updates were dropped, by reason
    flushes,            \* the callbacks past line 475, each with the list it popped
    flushed,            \* history: the number of items of the callbacks that ended
    returned_early,     \* history: the keys a callback returned for at line 475
    overflow_notices,   \* history: the overflow notices delivered, by submission
    \* ---- send_long_message, lines 763-775 and 802-907 (the send loop); the
    \* ---- position in the function is sp_pc
    reply_to_message_id, parse_mode, original_text_if_markdown_fails,
    chunk_i,            \* "i" of "for i, chunk_text in enumerate(chunks)" (from 0)
    attempt, text_for_current_chunk, current_parse_mode, current_reply_id,
    io,                 \* history: the sends and sleeps of the call, in order
    \* ---- process_media_group_callback past line 475, step by step
    fp_pc, media_group_images_data, final_text_prompt, prompt_parts,
    images_processed_count,
    fetch_k,            \* the position of the loop of lines 520-540 in the list (from 1)
    fp_io,              \* history: the calls of the callback to the bot and to the AI
    \* ---- the routing of one string, as the text of a message
    \* ---- (handle_message) and as the caption of a photo (handle_photo_message)
    tr_pc, user_message,
    text_routing,       \* should_respond, actual_message_to_process, trigger_command_used
    photo_routing       \* should_respond, actual_caption_to_process, trigger_command_used_info

mdVars == <<md_pc, md_text, md_once, md_twice>>
spVars == <<sp_pc, text_to_send, limit, line_i, chunks, current_chunk>>
agVars == <<media_groups, notified_overflow, job_queue, callbacks, handlers, now,
            arrivals, appended, dropped, flushes, flushed, returned_early,
            overflow_notices>>
slVars == <<reply_to_message_id, parse_mode, original_text_if_markdown_fails, chunk_i,
            attempt, text_for_current_chunk, current_parse_mode, current_reply_id, io>>
fpVars == <<fp_pc, media_group_images_data, final_text_prompt, prompt_parts,
            images_processed_count, fetch_k, fp_io>>
trVars == <<tr_pc, user_message, text_routing, photo_routing>>
vars == <<mdVars, spVars, agVars, slVars, fpVars, trVars>>

(***************************************************************************)
(* Bounds of the model.                                                    *)
(***************************************************************************)
MaxMdLen == 6
MaxTextLen == 5
MaxLimit == 3
MaxArrivals == 3
MaxSendLen == 2
MaxMessageLen == 3

\* All texts over alphabet A of length at most n.
TextsUpTo(A, n) == UNION {[1..k -> A] : k \in 0..n}

Last(s) == s[Len(s)]
Front(s) == SubSeq(s, 1, Len(s) - 1)

RECURSIVE Flatten(_)
Flatten(ss) == IF ss = <<>> THEN <<>> ELSE Head(ss) \o Flatten(Tail(ss))

(***************************************************************************)
(* markdown_utils.py                                                       *)
(***************************************************************************)
\* The character U+0060 (a string of the module cannot hold it).
BQ == "BQ"
single_char_symbols == {"*", BQ, "~"}
\* The only member of multi_char_symbols, as its characters.
Fence == <<BQ, BQ, BQ>>

\* text[i:i + len(symbol)] == symbol, for the 1-based position i.
FenceAt(text, i) == i + 2 <= Len(text) /\ SubSeq(text, i, i + 2) = Fence

\* "if stack and stack[-1] == tok: stack.pop() else: stack.append(tok)".
\* A stack entry is the token as its characters.
Toggle(stack, tok) ==
    IF stack # <<>> /\ Last(stack) = tok THEN Front(stack) ELSE Append(stack, tok)

\* line 25: "result.append(symbol)" for the three-character token.
EmitFenceAsChar(result) == Append(result, BQ)
EmitFence(result) == result \o Fence

\* The while loop of lines 16-45: the state after scanning text from i on.
RECURSIVE ScanFrom(_, _, _, _)
ScanFrom(text, i, stack, result) ==
    IF i > Len(text) THEN [stack |-> stack, result |-> result]
    ELSE IF FenceAt(text, i)
         THEN ScanFrom(text, i + 3, Toggle(stack, Fence), EmitFence(result))
    ELSE IF text[i] \in single_char_symbols
         THEN ScanFrom(text, i + 1, Toggle(stack, <<text[i]>>), Append(result, text[i]))
    ELSE ScanFrom(text, i + 1, stack, Append(result, text[i]))

\* The while loop of lines 47-49: pop every open tag and append it.
RECURSIVE CloseAll(_, _)
CloseAll(stack, result) ==
    IF stack = <<>> THEN result
    ELSE CloseAll(Front(stack), result \o Last(stack))

ensure_valid_markdown(text) ==
    IF text = <<>> THEN <<>>
    ELSE LET s == ScanFrom(text, 1, <<>>, <<>>) IN CloseAll(s.stack, s.result)

\* The stack the scan of lines 16-45 leaves on a text.
OpenTags(text) == ScanFrom(text, 1, <<>>, <<>>).stack

MdAlphabet == {"*", BQ, "~", "a"}

MdIdle == md_pc = "idle" /\ md_text = <<>> /\ md_once = <<>> /\ md_twice = <<>>

MdInit ==
    /\ md_pc = "input"
    /\ md_text \in TextsUpTo(MdAlphabet, MaxMdLen)
    /\ md_once = <<>>
    /\ md_twice = <<>>

\* One call of ensure_valid_markdown on the input.
MdBalance ==
    /\ md_pc = "input"
    /\ md_once' = ensure_valid_markdown(md_text)
    /\ md_pc' = "once"
    /\ UNCHANGED <<md_text, md_twice, spVars, agVars, slVars, fpVars, trVars>>

\* A second call, on the first call's output.
MdRebalance ==
    /\ md_pc = "once"
    /\ md_twice' = ensure_valid_markdown(md_once)
    /\ md_pc' = "twice"
    /\ UNCHANGED <<md_text, md_once, spVars, agVars, slVars, fpVars, trVars>>

(***************************************************************************)
(* bot_handlers.py, send_long_message: the splitting step (lines 776-800)  *)
(***************************************************************************)
IsSpace(c) == c \in {" ", "\n"}

\* str.strip()
RECURSIVE LStrip(_)
LStrip(s) == IF s # <<>> /\ IsSpace(Head(s)) THEN LStrip(Tail(s)) ELSE s
RECURSIVE RStrip(_)
RStrip(s) == IF s # <<>> /\ IsSpace(Last(s)) THEN RStrip(Front(s)) ELSE s
Strip(s) == LStrip(RStrip(s))

\* text.split('\n'): the lines of a text, at least one.
RECURSIVE SplitNL(_, _)
SplitNL(s, cur) ==
    IF s = <<>> THEN <<cur>>
    ELSE IF Head(s) = "\n" THEN <<cur>> \o SplitNL(Tail(s), <<>>)
    ELSE SplitNL(Tail(s), Append(cur, Head(s)))
Lines(text) == SplitNL(text, <<>>)

\* line 783: "if len(line) > limit".
TooLongOffByOne(line, lim) == Len(line) > lim + 1
TooLong(line, lim) == Len(line) > lim

\* lines 791-792: "for k in range(0, len(line), limit): chunks.append(line[k:k + limit])"
RECURSIVE SlicesSkipping(_, _)
SlicesSkipping(line, lim) ==
    IF line = <<>> THEN <<>>
    ELSE IF Len(line) <= lim THEN <<line>>
    ELSE <<SubSeq(line, 1, lim)>> \o SlicesSkipping(SubSeq(line, lim + 2, Len(line)), lim)
RECURSIVE ForcedSlices(_, _)
ForcedSlices(line, lim) ==
    IF line = <<>> THEN <<>>
    ELSE IF Len(line) <= lim THEN <<line>>
    ELSE <<SubSeq(line, 1, lim)>> \o ForcedSlices(SubSeq(line, lim + 1, Len(line)), lim)

\* "line + ('\n' if i < len(lines) - 1 else '')"
WithNL(line, isLast) == IF isLast THEN line ELSE Append(line, "\n")

\* One iteration of the loop of lines 782-797 on (chunks, current_chunk).
SplitStepNoFlush(cs, cur, line, isLast, lim) ==
    IF TooLong(line, lim)
    THEN [chunks |-> cs \o ForcedSlices(line, lim), current_chunk |-> cur]
    ELSE IF Len(cur) + Len(line) + 1 <= lim
    THEN [chunks |-> cs, current_chunk |-> cur \o WithNL(line, isLast)]
    ELSE [chunks |-> Append(cs, Strip(cur)), current_chunk |-> WithNL(line, isLast)]
SplitStep(cs, cur, line, isLast, lim) ==
    IF TooLong(line, lim)
    THEN [chunks |-> (IF cur # <<>> THEN Append(cs, Strip(cur)) ELSE cs)
                        \o ForcedSlices(line, lim),
          current_chunk |-> IF cur # <<>> THEN <<>> ELSE cur]
    ELSE IF Len(cur) + Len(line) + 1 <= lim
    THEN [chunks |-> cs, current_chunk |-> cur \o WithNL(line, isLast)]
    ELSE [chunks |-> Append(cs, Strip(cur)), current_chunk |-> WithNL(line, isLast)]

\* lines 799-800: "if current_chunk.strip(): chunks.append(current_chunk.strip())"
SplitEnd(cs, cur) == IF Strip(cur) # <<>> THEN Append(cs, Strip(cur)) ELSE cs

\* The whole of lines 776-800 as a function of the text and the limit.
RECURSIVE SplitLoop(_, _, _, _, _)
SplitLoop(ls, k, cs, cur, lim) ==
    IF k > Len(ls) THEN SplitEnd(cs, cur)
    ELSE LET r == SplitStep(cs, cur, ls[k], k = Len(ls), lim)
         IN SplitLoop(ls, k + 1, r.chunks, r.current_chunk, lim)
SplitChunks(text, lim) == SplitLoop(Lines(text), 1, <<>>, <<>>, lim)

SpAlphabet == {"a", "b", " ", "\n"}

SpIdle ==
    /\ sp_pc = "idle" /\ text_to_send = <<>> /\ limit = 0
    /\ line_i = 0 /\ chunks = <<>> /\ current_chunk = <<>>

\* send_long_message reaches line 776 with a non-empty text only (lines 763-775).
SpInit ==
    /\ sp_pc = "loop"
    /\ text_to_send \in TextsUpTo(SpAlphabet, MaxTextLen) \ {<<>>}
    /\ limit \in 1..MaxLimit
    /\ line_i = 1
    /\ chunks = <<>>
    /\ current_chunk = <<>>

\* One iteration of "for i, line in enumerate(lines)".
SplitLine ==
    /\ sp_pc = "loop"
    /\ line_i <= Len(Lines(text_to_send))
    /\ LET ls == Lines(text_to_send)
           r == SplitStep(chunks, current_chunk, ls[line_i], line_i = Len(ls), limit)
       IN /\ chunks' = r.chunks
          /\ current_chunk' = r.current_chunk
    /\ line_i' = line_i + 1
    /\ UNCHANGED <<sp_pc, text_to_send, limit, mdVars, trVars, agVars, slVars, fpVars>>

\* The loop is over: lines 799-800.
SplitFinish ==
    /\ sp_pc = "loop"
    /\ line_i > Len(Lines(text_to_send))
    /\ chunks' = SplitEnd(chunks, current_chunk)
    /\ sp_pc' = "split_done"
    /\ UNCHANGED <<text_to_send, limit, line_i, current_chunk, mdVars, trVars, agVars, slVars, fpVars>>

(***************************************************************************)
(* bot_handlers.py, handle_photo_message and process_media_group_callback  *)
(***************************************************************************)
\* config.MAX_IMAGE_INPUT and config.MEDIA_GROUP_PROCESSING_DELAY (in clock
\* ticks); config.py sets them, bot_handlers.py imports them.
MAX_IMAGE_INPUT == 2
MEDIA_GROUP_PROCESSING_DELAY == 2

\* An optional value: None, or Some(x).
None == <<>>
Some(x) == <<x>>
\* Python truthiness of an optional text.
Truthy(o) == o # None /\ o[1] # <<>>

\* config.GROUP_TRIGGER_COMMANDS, in the configured order.
GROUP_TRIGGER_COMMANDS == << <<"/", "a">>, <<"/", "a", "i">> >>

\* str.lower()
LowerChar(c) == IF c = "A" THEN "a" ELSE IF c = "I" THEN "i" ELSE c
Lower(s) == [k \in 1..Len(s) |-> LowerChar(s[k])]
\* str.startswith()
StartsWith(s, p) == Len(p) <= Len(s) /\ SubSeq(s, 1, Len(p)) = p

\* The chats of the model: a private chat and a group.
PrivateChat == 1
GroupChat == -2
ChatTypeOf(chat_id) == IF chat_id = PrivateChat THEN "PRIVATE" ELSE "GROUP"

\* lines 294-308: the loop over the trigger commands, from the k-th on.
RECURSIVE CaptionTrigger(_, _)
CaptionTrigger(caption, k) ==
    IF k > Len(GROUP_TRIGGER_COMMANDS)
    THEN [should_respond |-> FALSE, caption |-> Some(caption), trigger |-> None]
    ELSE LET trigger == Lower(GROUP_TRIGGER_COMMANDS[k])
             caption_lower == Lower(caption)
         IN IF StartsWith(caption_lower, trigger)
            THEN IF Len(caption_lower) = Len(trigger)
                    \/ IsSpace(caption_lower[Len(trigger) + 1])
                 THEN [should_respond |-> TRUE,
                       caption |-> Some(Strip(SubSeq(caption, Len(trigger) + 1, Len(caption)))),
                       trigger |-> Some(GROUP_TRIGGER_COMMANDS[k])]
                 ELSE [should_respond |-> FALSE, caption |-> Some(caption), trigger |-> None]
            ELSE CaptionTrigger(caption, k + 1)

\* lines 80-101: the loop of handle_message over the trigger commands, from
\* the k-th on.  A command the text starts with but does not end at, nor is
\* followed by whitespace, is passed over and the next one is tried.
RECURSIVE TextTrigger(_, _)
TextTrigger(text, k) ==
    IF k > Len(GROUP_TRIGGER_COMMANDS)
    THEN [should_respond |-> FALSE, text |-> Some(text), trigger |-> None]
    ELSE LET trigger == Lower(GROUP_TRIGGER_COMMANDS[k])
             msg_lower == Lower(text)
         IN IF StartsWith(msg_lower, trigger) /\ Len(msg_lower) = Len(trigger)
            THEN [should_respond |-> TRUE, text |-> Some(<<>>),
                  trigger |-> Some(GROUP_TRIGGER_COMMANDS[k])]
            ELSE IF /\ StartsWith(msg_lower, trigger)
                    /\ Len(msg_lower) > Len(trigger)
                    /\ IsSpace(msg_lower[Len(trigger) + 1])
            THEN [should_respond |-> TRUE,
                  text |-> Some(Strip(SubSeq(text, Len(trigger) + 1, Len(text)))),
                  trigger |-> Some(GROUP_TRIGGER_COMMANDS[k])]
            ELSE TextTrigger(text, k + 1)

\* lines 53-105: should_respond, actual_message_to_process and
\* trigger_command_used of a text message (a message without text is
\* ignored, lines 53-57).
MessageRouting(msg) ==
    IF ~Truthy(msg.text)
    THEN [should_respond |-> FALSE, text |-> msg.text, trigger |-> None]
    ELSE IF ChatTypeOf(msg.chat_id) = "PRIVATE"
    THEN [should_respond |-> TRUE, text |-> msg.text, trigger |-> None]
    ELSE IF msg.reply_to_bot
    THEN [should_respond |-> TRUE, text |-> msg.text, trigger |-> None]
    ELSE TextTrigger(msg.text[1], 1)

\* lines 277-316: should_respond, actual_caption_to_process and
\* trigger_command_used_info of a photo message.
PhotoRouting(msg) ==
    IF ChatTypeOf(msg.chat_id) = "PRIVATE"
    THEN [should_respond |-> TRUE, caption |-> msg.caption, trigger |-> None]
    ELSE IF msg.reply_to_bot
    THEN [should_respond |-> TRUE, caption |-> msg.caption, trigger |-> None]
    ELSE IF Truthy(msg.caption)
    THEN CaptionTrigger(msg.caption[1], 1)
    ELSE [should_respond |-> FALSE, caption |-> msg.caption, trigger |-> None]

\* The photo updates of the model, every one part of a media group (a
\* photo without media_group_id takes lines 397-446, which touch neither
\* bot_data nor the job queue).
Updates ==
    {[chat_id |-> GroupChat, media_group_id |-> "7", message_id |-> 1,
      caption |-> Some(<<"/", "a", " ", "x">>), reply_to_bot |-> FALSE],
     [chat_id |-> GroupChat, media_group_id |-> "7", message_id |-> 2,
      caption |-> None, reply_to_bot |-> TRUE],
     [chat_id |-> GroupChat, media_group_id |-> "7", message_id |-> 3,
      caption |-> Some(<<"/", "A">>), reply_to_bot |-> FALSE],
     [chat_id |-> GroupChat, media_group_id |-> "7", message_id |-> 4,
      caption |-> Some(<<"x">>), reply_to_bot |-> FALSE],
     [chat_id |-> PrivateChat, media_group_id |-> "8", message_id |-> 1,
      caption |-> None, reply_to_bot |-> FALSE]}

\* context.bot_data['media_groups'][chat_id][media_group_id], or the empty
\* list lines 334-339 would create.  (An absent 'media_groups' and an empty
\* one are one state here: both are created or skipped alike.)
HasGroup(mg, c, g) == c \in DOMAIN mg /\ g \in DOMAIN mg[c]
GroupItems(mg, c, g) == IF HasGroup(mg, c, g) THEN mg[c][g] ELSE <<>>

\* mg with mg[c][g] set to items (creating the dicts of lines 334-339).
WithGroup(mg, c, g, items) ==
    LET inner == IF c \in DOMAIN mg THEN mg[c] ELSE <<>>
        inner2 == [x \in (DOMAIN inner) \cup {g} |-> IF x = g THEN items ELSE inner[x]]
    IN [x \in (DOMAIN mg) \cup {c} |-> IF x = c THEN inner2 ELSE mg[x]]

\* lines 462-467: pop the group's list, then the dicts left empty.
KeepGroup(mg, c, g) == mg
PopGroup(mg, c, g) ==
    IF ~HasGroup(mg, c, g) THEN mg
    ELSE LET inner == [x \in (DOMAIN mg[c]) \ {g} |-> mg[c][x]]
         IN IF DOMAIN inner = {}
            THEN [x \in (DOMAIN mg) \ {c} |-> mg[x]]
            ELSE [mg EXCEPT ![c] = inner]

\* line 343: is_duplicate
NeverDuplicate(items, message_id) == FALSE
IsDuplicate(items, message_id) == \E k \in 1..Len(items) : items[k].message_id = message_id

\* lines 381 and 370: the job name and the flag key of a (chat, media group);
\* both keep the two parts apart, so the pair stands for the string.
JobName(c, g) == <<"process_media_group", c, g>>
NotifiedKey(c, g) == <<"notified_overflow", c, g>>

\* A bag (a function from elements to positive counts) with one more, or
\* one less, copy of e.
BagAdd(bag, e) ==
    [x \in (DOMAIN bag) \cup {e} |->
        IF x \in DOMAIN bag THEN (IF x = e THEN bag[x] + 1 ELSE bag[x]) ELSE 1]
BagRemove(bag, e) ==
    IF bag[e] > 1 THEN [bag EXCEPT ![e] = @ - 1]
    ELSE [x \in (DOMAIN bag) \ {e} |-> bag[x]]

\* The job run_once makes for a (chat, media group) at time t.
NewJob(c, g, t) ==
    [name |-> JobName(c, g), chat_id |-> c, media_group_id |-> g,
     due |-> t + MEDIA_GROUP_PROCESSING_DELAY]

\* lines 381-393: remove every job of that name, then run_once.
CancelOnly(jobs, c, g, t) ==
    [x \in {j \in DOMAIN jobs : j.name # JobName(c, g)} |-> jobs[x]]
ScheduleKeepingOld(jobs, c, g, t) == BagAdd(jobs, NewJob(c, g, t))
Reschedule(jobs, c, g, t) ==
    BagAdd([x \in {j \in DOMAIN jobs : j.name # JobName(c, g)} |-> jobs[x]],
           NewJob(c, g, t))

\* No update dropped yet.
NoneDropped == [duplicate |-> 0, overflow |-> 0]

AgIdle ==
    /\ media_groups = <<>> /\ notified_overflow = {} /\ job_queue = <<>>
    /\ callbacks = <<>> /\ handlers = <<>> /\ now = -1
    /\ arrivals = 0 /\ appended = 0 /\ dropped = NoneDropped /\ flushes = {}
    /\ flushed = 0 /\ returned_early = {} /\ overflow_notices = <<>>

AgInit ==
    /\ media_groups = <<>>
    /\ notified_overflow = {}
    /\ job_queue = <<>>
    /\ callbacks = <<>>
    /\ handlers = <<>>
    /\ now = 0
    /\ arrivals = 0
    /\ appended = 0
    /\ dropped = NoneDropped
    /\ flushes = {}
    /\ flushed = 0
    /\ returned_early = {}
    /\ overflow_notices = <<>>

\* lines 347-361: the item appended for a photo with routing r; seq (its
\* ordinal among the appended items) and at (the time of its arrival) are
\* history.  The file_id of a photo is told by its message_id here.
ImageItem(msg, r, seq, t) ==
    [file_id |-> msg.message_id,
     caption_for_ai |-> r.caption,
     original_caption |-> msg.caption,
     message_id |-> msg.message_id,
     is_reply_to_bot |-> msg.reply_to_bot,
     trigger_command_used_info |-> r.trigger,
     seq |-> seq,
     at |-> t]

\* line 346: current_images_in_group.append(...)
PrependItem(items, item) == <<item>> \o items
AppendItem(items, item) == Append(items, item)

\* handle_photo_message on a media-group photo, up to its return or to its
\* suspension in reply_text (line 372).  A suspended handler is told by its
\* (chat, media group) and, as history, by the submission it is for: sub, the
\* seq of the first item of the buffer.
HandlePhoto(msg) ==
    /\ arrivals < MaxArrivals
    /\ arrivals' = arrivals + 1
    /\ LET r == PhotoRouting(msg)
           c == msg.chat_id
           g == msg.media_group_id
           current_images_in_group == GroupItems(media_groups, c, g)
           is_duplicate == IsDuplicate(current_images_in_group, msg.message_id)
       IN IF ~r.should_respond
          THEN \* line 322
               UNCHANGED <<media_groups, notified_overflow, job_queue, handlers, appended,
                           dropped>>
          ELSE IF ~is_duplicate /\ Len(current_images_in_group) < MAX_IMAGE_INPUT
          THEN \* lines 347-361, 381-393
               /\ media_groups' = WithGroup(media_groups, c, g,
                     AppendItem(current_images_in_group, ImageItem(msg, r, appended + 1, now)))
               /\ job_queue' = Reschedule(job_queue, c, g, now)
               /\ appended' = appended + 1
               /\ UNCHANGED <<notified_overflow, handlers, dropped>>
          ELSE IF ~is_duplicate
          THEN \* lines 365-375
               /\ media_groups' = WithGroup(media_groups, c, g, current_images_in_group)
               /\ dropped' = [dropped EXCEPT !.overflow = @ + 1]
               /\ UNCHANGED appended
               /\ IF NotifiedKey(c, g) \notin notified_overflow
                  THEN /\ handlers' = BagAdd(handlers,
                                              [chat_id |-> c, media_group_id |-> g,
                                               sub |-> current_images_in_group[1].seq])
                       /\ UNCHANGED <<notified_overflow, job_queue>>
                  ELSE /\ job_queue' = Reschedule(job_queue, c, g, now)
                       /\ UNCHANGED <<notified_overflow, handlers>>
          ELSE \* lines 376-379, 381-393
               /\ media_groups' = WithGroup(media_groups, c, g, current_images_in_group)
               /\ job_queue' = Reschedule(job_queue, c, g, now)
               /\ dropped' = [dropped EXCEPT !.duplicate = @ + 1]
               /\ UNCHANGED appended
               /\ UNCHANGED <<notified_overflow, handlers>>
    /\ UNCHANGED <<callbacks, now, flushes, flushed, returned_early, mdVars, trVars, spVars, slVars, fpVars, overflow_notices>>

\* reply_text of line 372 returned: lines 375 and 381-393.
OverflowNotified(h) ==
    /\ h \in DOMAIN handlers
    /\ notified_overflow' = notified_overflow \cup {NotifiedKey(h.chat_id, h.media_group_id)}
    /\ job_queue' = Reschedule(job_queue, h.chat_id, h.media_group_id, now)
    /\ handlers' = BagRemove(handlers, h)
    /\ overflow_notices' = BagAdd(overflow_notices, h.sub)
    /\ UNCHANGED <<media_groups, callbacks, now, arrivals, appended, dropped, flushes,
                   flushed, returned_early, mdVars, trVars, spVars, slVars, fpVars>>

\* reply_text of line 372 raised: the handler ends there.
OverflowNotifyRaised(h) ==
    /\ h \in DOMAIN handlers
    /\ handlers' = BagRemove(handlers, h)
    /\ UNCHANGED <<media_groups, notified_overflow, job_queue, callbacks, now,
                   arrivals, appended, dropped, flushes, flushed, returned_early,
                   mdVars, trVars, spVars, slVars, fpVars, overflow_notices>>

\* The clock advances, towards the time of a pending job.  (With no job
\* pending nothing waits for the clock, and the time that passes then is left
\* out: it would only move every later time by as much.)
Tick ==
    /\ \E j \in DOMAIN job_queue : now < j.due
    /\ now' = now + 1
    /\ UNCHANGED <<media_groups, notified_overflow, job_queue, callbacks, handlers,
                   arrivals, appended, dropped, flushes, flushed, returned_early,
                   mdVars, trVars, spVars, slVars, fpVars, overflow_notices>>

\* A job whose time has come leaves the queue and its callback becomes a
\* task of the event loop (run_once, line 386).
FireJob(j) ==
    /\ j \in DOMAIN job_queue
    /\ j.due <= now
    /\ callbacks' = BagAdd(callbacks, [chat_id |-> j.chat_id,
                                       media_group_id |-> j.media_group_id])
    /\ job_queue' = BagRemove(job_queue, j)
    /\ UNCHANGED <<media_groups, notified_overflow, handlers, now, arrivals, appended,
                   dropped, flushes, flushed, returned_early, mdVars, trVars, spVars, slVars, fpVars, overflow_notices>>

\* lines 468-469: context.bot_data.pop("notified_overflow_...", None)
KeepFlag(flags, c, g) == flags
PopFlag(flags, c, g) == flags \ {NotifiedKey(c, g)}

\* line 471: "if not media_group_images_data: return"
ProceedsAlways(images) == TRUE
Proceeds(images) == images # <<>>

\* process_media_group_callback, lines 450-475: up to the return of line 475
\* or to the first suspension (line 477).  An entry of flushes is a callback
\* that went past line 475, with the list it popped and the time of the pop.
CallbackStart(t) ==
    /\ t \in DOMAIN callbacks
    /\ LET c == t.chat_id
           g == t.media_group_id
           popped == GroupItems(media_groups, c, g)
       IN /\ media_groups' = PopGroup(media_groups, c, g)
          /\ notified_overflow' = PopFlag(notified_overflow, c, g)
          /\ IF Proceeds(popped)
             THEN /\ flushes' = flushes \cup
                        {[chat_id |-> c, media_group_id |-> g, at |-> now,
                          images |-> popped]}
                  /\ UNCHANGED returned_early
             ELSE /\ returned_early' = returned_early \cup {<<c, g>>}
                  /\ UNCHANGED flushes
    /\ callbacks' = BagRemove(callbacks, t)
    /\ UNCHANGED <<job_queue, handlers, now, arrivals, appended, dropped, flushed, mdVars, trVars,
                   spVars, slVars, fpVars, overflow_notices>>

\* process_media_group_callback, lines 477-600: the chat action, the
\* fetches, the AI call and the sends.  They read the popped list only and
\* touch neither bot_data nor the job queue, so their suspension points are
\* not told apart here: the callback ends.
CallbackFlush(f) ==
    /\ f \in flushes
    /\ flushes' = flushes \ {f}
    /\ flushed' = flushed + Len(f.images)
    /\ UNCHANGED <<media_groups, notified_overflow, job_queue, callbacks, handlers, now,
                   arrivals, appended, dropped, returned_early, mdVars, trVars, spVars, slVars, fpVars, overflow_notices>>

(***************************************************************************)
(* bot_handlers.py, send_long_message: entry (lines 763-811) and the send  *)
(* loop (lines 813-907)                                                    *)
(***************************************************************************)
\* ParseMode.MARKDOWN, and parse_mode=None.
MARKDOWN == "Markdown"
PLAIN == "None"

\* What context.bot.send_message does: it returns, or raises RetryAfter,
\* BadRequest with "can't parse entities" in its text, another BadRequest,
\* another TelegramError, or another exception.
Outcomes == {"ok", "RetryAfter", "BadRequest_parse", "BadRequest", "TelegramError", "Exception"}

\* line 829: max_retries_markdown_fail
max_retries_markdown_fail == 1

FpIdle ==
    /\ fp_pc = "idle" /\ media_group_images_data = <<>> /\ final_text_prompt = None
    /\ prompt_parts = <<>> /\ images_processed_count = 0 /\ fetch_k = 0 /\ fp_io = <<>>

SlIdle ==
    /\ reply_to_message_id = None /\ parse_mode = PLAIN
    /\ original_text_if_markdown_fails = None /\ chunk_i = 0 /\ attempt = 0
    /\ text_for_current_chunk = <<>> /\ current_parse_mode = PLAIN
    /\ current_reply_id = None /\ io = <<>>

SendAlphabet == {"a", "*", "\n"}

\* A call of send_long_message as the callers make it (lines 571-577, 679-750):
\* the balanced text in Markdown mode with the raw text beside it, or the raw
\* text in plain mode; with a message to reply to, or (the default) without.
\* The signature (lines 753-762) also admits an empty text beside any raw
\* text, the case lines 763-775 are written for.
SendInit ==
    /\ sp_pc = "enter"
    /\ \E raw \in TextsUpTo(SendAlphabet, MaxSendLen) :
          \/ /\ text_to_send = ensure_valid_markdown(raw)
             /\ parse_mode = MARKDOWN
             /\ original_text_if_markdown_fails = Some(raw)
          \/ /\ text_to_send = raw
             /\ parse_mode = PLAIN
             /\ original_text_if_markdown_fails = None
          \/ /\ text_to_send = <<>>
             /\ parse_mode = MARKDOWN
             /\ original_text_if_markdown_fails \in {None, Some(raw)}
    /\ reply_to_message_id \in {None, Some(1)}
    /\ limit \in 1..MaxLimit
    /\ line_i = 0 /\ chunks = <<>> /\ current_chunk = <<>>
    /\ chunk_i = 0 /\ attempt = 0
    /\ text_for_current_chunk = <<>> /\ current_parse_mode = PLAIN
    /\ current_reply_id = None /\ io = <<>>

\* lines 763-765: is the raw text sent in place of an empty text?
UsesFallbackNever(text, original) == FALSE
UsesFallback(text, original) ==
    text = <<>> /\ Truthy(original) /\ Strip(original[1]) # <<>>

\* lines 763-811: the empty text, the split, "if not chunks: return".
SendEnter ==
    /\ sp_pc = "enter"
    /\ LET fallback == UsesFallback(text_to_send, original_text_if_markdown_fails)
           text == IF fallback THEN original_text_if_markdown_fails[1] ELSE text_to_send
       IN IF text_to_send = <<>> /\ ~fallback
          THEN /\ sp_pc' = "return"
               /\ UNCHANGED <<text_to_send, parse_mode, chunks>>
          ELSE /\ text_to_send' = text
               /\ parse_mode' = IF fallback THEN PLAIN ELSE parse_mode
               /\ chunks' = SplitChunks(text, limit)
               /\ sp_pc' = IF SplitChunks(text, limit) = <<>> THEN "return" ELSE "chunk"
    /\ UNCHANGED <<limit, line_i, current_chunk, reply_to_message_id,
                   original_text_if_markdown_fails, chunk_i, attempt, text_for_current_chunk,
                   current_parse_mode, current_reply_id, io, mdVars, trVars, agVars, fpVars>>

\* lines 815-826: the text and the mode of the first attempt for a chunk.
RevalidatedEmpty(chunk_text) ==
    Strip(ensure_valid_markdown(chunk_text)) = <<>> /\ Strip(chunk_text) # <<>>
FirstTextRaw(chunk_text, mode) == chunk_text
FirstText(chunk_text, mode) ==
    IF mode = MARKDOWN /\ ~RevalidatedEmpty(chunk_text)
    THEN ensure_valid_markdown(chunk_text) ELSE chunk_text
FirstMode(chunk_text, mode) ==
    IF mode = MARKDOWN /\ RevalidatedEmpty(chunk_text) THEN PLAIN ELSE mode

\* line 828: current_reply_id
ReplyIdEveryChunk(i, reply_to) == reply_to
ReplyIdFor(i, reply_to) == IF i = 0 THEN reply_to ELSE None

\* lines 813-829: the head of an iteration of "for i, chunk_text in
\* enumerate(chunks)", up to the first send of the chunk; the loop ends when
\* the chunks are used up.
SendChunk ==
    /\ sp_pc = "chunk"
    /\ IF chunk_i >= Len(chunks)
       THEN /\ sp_pc' = "return"
            /\ UNCHANGED <<chunk_i, attempt, text_for_current_chunk, current_parse_mode,
                           current_reply_id>>
       ELSE LET chunk_text == chunks[chunk_i + 1]
            IN IF chunk_text = <<>>
               THEN \* line 814: continue
                    /\ chunk_i' = chunk_i + 1
                    /\ UNCHANGED <<sp_pc, attempt, text_for_current_chunk,
                                   current_parse_mode, current_reply_id>>
               ELSE /\ text_for_current_chunk' = FirstText(chunk_text, parse_mode)
                    /\ current_parse_mode' = FirstMode(chunk_text, parse_mode)
                    /\ current_reply_id' = ReplyIdFor(chunk_i, reply_to_message_id)
                    /\ attempt' = 0
                    /\ sp_pc' = "attempt"
                    /\ UNCHANGED chunk_i
    /\ UNCHANGED <<text_to_send, limit, line_i, chunks, current_chunk, reply_to_message_id,
                   parse_mode, original_text_if_markdown_fails, io, mdVars, trVars, agVars, fpVars>>

\* An entry of io: a send of a chunk, the sleep after RetryAfter, the send
\* of an error notice (lines 869-873, 883-887, 897-901: no reply reference, no
\* parse mode), or the sleep that ends the iteration of a chunk.
SendEvent(o) ==
    [kind |-> "chunk", i |-> chunk_i, attempt |-> attempt, text |-> text_for_current_chunk,
     parse_mode |-> current_parse_mode, reply_to |-> current_reply_id, outcome |-> o]
SleepEvent ==
    [kind |-> "sleep", i |-> chunk_i, attempt |-> attempt, text |-> <<>>,
     parse_mode |-> PLAIN, reply_to |-> None, outcome |-> "ok"]
NoticeEvent(o) ==
    [kind |-> "notice", i |-> chunk_i, attempt |-> attempt, text |-> <<>>,
     parse_mode |-> PLAIN, reply_to |-> None, outcome |-> o]

PaceEvent ==
    [kind |-> "pace", i |-> chunk_i, attempt |-> attempt, text |-> <<>>,
     parse_mode |-> PLAIN, reply_to |-> None, outcome |-> "ok"]

\* lines 906-907: "if len(chunks) > 1 and i < len(chunks) - 1: await
\* asyncio.sleep(0.7)", at the end of the iteration of chunk i.
Pacing(i, n) == IF n > 1 /\ i < n - 1 THEN <<PaceEvent>> ELSE <<>>

\* line 854: the BadRequest that is answered by a retry as plain text.
RetriesPlainAnyAttempt(o, mode, att) == o = "BadRequest_parse" /\ mode = MARKDOWN
RetriesPlain(o, mode, att) ==
    o = "BadRequest_parse" /\ mode = MARKDOWN /\ att < max_retries_markdown_fail

\* lines 867, 881, 895: is an error notice sent for the failed chunk?
NoticeDueEveryChunk(i, o, reply_to) == TRUE
NoticeDue(i, o, reply_to) ==
    IF o = "Exception" THEN i = 0 /\ reply_to = None ELSE i = 0

\* lines 831-904: one pass of "for attempt in range(max_retries_markdown_fail
\* + 1)": the send, and what its outcome leads to, up to the next send.  A
\* "break", and the end of the attempts, leave for the next chunk by the
\* sleep of lines 906-907.
SendAttempt(o) ==
    /\ sp_pc = "attempt"
    /\ o \in Outcomes
    /\ LET nextChunk == /\ chunk_i' = chunk_i + 1
                        /\ sp_pc' = "chunk"
                        /\ UNCHANGED <<attempt, text_for_current_chunk, current_parse_mode>>
           pace == Pacing(chunk_i, Len(chunks))
       IN CASE o = "ok" ->
                 /\ io' = Append(io, SendEvent(o)) \o pace
                 /\ nextChunk
            [] o = "RetryAfter" ->
                 /\ io' = io \o <<SendEvent(o), SleepEvent>> \o
                             (IF attempt < max_retries_markdown_fail THEN <<>> ELSE pace)
                 /\ IF attempt < max_retries_markdown_fail
                    THEN /\ attempt' = attempt + 1
                         /\ UNCHANGED <<sp_pc, chunk_i, text_for_current_chunk,
                                        current_parse_mode>>
                    ELSE nextChunk
            [] RetriesPlain(o, current_parse_mode, attempt) ->
                 /\ io' = Append(io, SendEvent(o))
                 /\ text_for_current_chunk' = chunks[chunk_i + 1]
                 /\ current_parse_mode' = PLAIN
                 /\ attempt' = attempt + 1
                 /\ UNCHANGED <<sp_pc, chunk_i>>
            [] OTHER ->
                 /\ io' = Append(io, SendEvent(o)) \o
                             (IF NoticeDue(chunk_i, o, reply_to_message_id) THEN <<>> ELSE pace)
                 /\ IF NoticeDue(chunk_i, o, reply_to_message_id)
                    THEN /\ sp_pc' = "notice"
                         /\ UNCHANGED <<chunk_i, attempt, text_for_current_chunk,
                                        current_parse_mode>>
                    ELSE nextChunk
    /\ UNCHANGED <<text_to_send, limit, line_i, chunks, current_chunk, reply_to_message_id,
                   parse_mode, original_text_if_markdown_fails, current_reply_id,
                   mdVars, trVars, agVars, fpVars>>

\* lines 868-875, 882-889, 896-903: the send of the error notice, whose
\* failure is swallowed ("except: pass"), then "break" and lines 906-907.
SendNotice(o) ==
    /\ sp_pc = "notice"
    /\ o \in {"ok", "TelegramError"}
    /\ io' = Append(io, NoticeEvent(o)) \o Pacing(chunk_i, Len(chunks))
    /\ chunk_i' = chunk_i + 1
    /\ sp_pc' = "chunk"
    /\ UNCHANGED <<text_to_send, limit, line_i, chunks, current_chunk, reply_to_message_id,
                   parse_mode, original_text_if_markdown_fails, attempt,
                   text_for_current_chunk, current_parse_mode, current_reply_id,
                   mdVars, trVars, agVars, fpVars>>

\* lines 21-22 and 779: the longest message the channel takes and the room
\* left below it, limit = TELEGRAM_MAX_MESSAGE_LENGTH - 20 (4096 and 20 in the
\* program, scaled down here).
TELEGRAM_MAX_MESSAGE_LENGTH == 3
SafetyMargin == 1

LongAlphabet == {"a", "*", "~", "\n"}

\* A call of send_long_message with a text of a little more than twice the
\* limit (9000 characters against 4076 in the program), the limit computed
\* as line 779 does.
LongInit ==
    /\ sp_pc = "enter"
    /\ limit = TELEGRAM_MAX_MESSAGE_LENGTH - SafetyMargin
    /\ \E raw \in TextsUpTo(LongAlphabet, 2 * limit + 1) :
          \/ /\ text_to_send = ensure_valid_markdown(raw)
             /\ parse_mode = MARKDOWN
             /\ original_text_if_markdown_fails = Some(raw)
          \/ /\ text_to_send = raw
             /\ parse_mode = PLAIN
             /\ original_text_if_markdown_fails = None
    /\ Len(text_to_send) = 2 * limit + 1
    /\ reply_to_message_id \in {None, Some(1)}
    /\ line_i = 0 /\ chunks = <<>> /\ current_chunk = <<>>
    /\ chunk_i = 0 /\ attempt = 0
    /\ text_for_current_chunk = <<>> /\ current_parse_mode = PLAIN
    /\ current_reply_id = None /\ io = <<>>

(***************************************************************************)
(* bot_handlers.py, process_media_group_callback past line 475: the prompt *)
(* (lines 479-514), the fetches (516-540), the notice (542-556), the AI    *)
(* call and the answer (563-600)                                           *)
(***************************************************************************)
\* config.DEFAULT_PROMPT_FOR_IMAGE_IF_NO_CAPTION
DEFAULT_PROMPT_FOR_IMAGE_IF_NO_CAPTION == <<"d">>

\* lines 482-483: the item was sent with a trigger command or as a reply to
\* the bot.
IsTriggered(item) == Truthy(item.trigger_command_used_info) \/ item.is_reply_to_bot

\* lines 482-495: the position of the item the first loop breaks at, or 0.
NoTriggered(items) == 0
FirstTriggered(items) ==
    IF \E k \in 1..Len(items) : IsTriggered(items[k])
    THEN CHOOSE k \in 1..Len(items) :
            IsTriggered(items[k]) /\ \A m \in 1..(k - 1) : ~IsTriggered(items[m])
    ELSE 0

\* lines 497-504: the first caption_for_ai that is neither None nor empty,
\* or None.
FirstCaption(items) ==
    IF \E k \in 1..Len(items) : Truthy(items[k].caption_for_ai)
    THEN LET k == CHOOSE n \in 1..Len(items) :
                     /\ Truthy(items[n].caption_for_ai)
                     /\ \A m \in 1..(n - 1) : ~Truthy(items[m].caption_for_ai)
         IN items[k].caption_for_ai
    ELSE None

\* lines 480-510: final_text_prompt.  After the first loop it is the
\* caption_for_ai of the item found (None, or a text that may be empty), and
\* None if no item was found; only None lets the second loop run.
FinalTextPrompt(items) ==
    LET t == FirstTriggered(items)
        first == IF t = 0 THEN None ELSE items[t].caption_for_ai
        second == IF first = None THEN FirstCaption(items) ELSE first
    IN IF Truthy(second) THEN second ELSE Some(DEFAULT_PROMPT_FOR_IMAGE_IF_NO_CAPTION)

\* The updates a buffer can be made of: those of Updates, and more captions.
AlbumUpdates ==
    Updates \cup
    {[chat_id |-> GroupChat, media_group_id |-> "7", message_id |-> 5,
      caption |-> Some(<<"y">>), reply_to_bot |-> TRUE],
     [chat_id |-> PrivateChat, media_group_id |-> "8", message_id |-> 2,
      caption |-> Some(<<"x">>), reply_to_bot |-> FALSE],
     [chat_id |-> PrivateChat, media_group_id |-> "8", message_id |-> 3,
      caption |-> Some(<<"y">>), reply_to_bot |-> TRUE]}

\* The lists a callback can pop: the items (lines 347-361) of one to
\* MAX_IMAGE_INPUT updates of one (chat, media group) that are responded to,
\* with different message_ids, in any order of arrival.
AlbumOf(us) == [k \in 1..Len(us) |-> ImageItem(us[k], PhotoRouting(us[k]), k, 0)]
Albums ==
    {AlbumOf(us) :
        us \in {vs \in UNION {[1..n -> {v \in AlbumUpdates : PhotoRouting(v).should_respond}] :
                               n \in 1..MAX_IMAGE_INPUT} :
                   \A j, k \in 1..Len(vs) :
                       /\ vs[j].chat_id = vs[k].chat_id
                       /\ vs[j].media_group_id = vs[k].media_group_id
                       /\ vs[j].message_id = vs[k].message_id => j = k}}

FlushInit ==
    /\ fp_pc = "chat_action"
    /\ media_group_images_data \in Albums
    /\ final_text_prompt = None
    /\ prompt_parts = <<>>
    /\ images_processed_count = 0
    /\ fetch_k = 0
    /\ fp_io = <<>>

\* An entry of fp_io: a call with its reply reference, its outcome, and its
\* parts (of a fetch, the file fetched; of a call of the AI, prompt_parts).
FlushEvent(kind, reply_to, parts, o) ==
    [kind |-> kind, reply_to |-> reply_to, parts |-> parts, outcome |-> o]

\* lines 477-518: send_chat_action, which may raise (it is in no try: the
\* exception leaves the callback), then the prompt, up to the first fetch.
FlushChatAction(ok) ==
    /\ fp_pc = "chat_action"
    /\ IF ok
       THEN /\ final_text_prompt' = FinalTextPrompt(media_group_images_data)
            /\ prompt_parts' = <<[text |-> FinalTextPrompt(media_group_images_data)[1]]>>
            /\ fetch_k' = 1
            /\ fp_pc' = "fetch"
       ELSE /\ fp_pc' = "raised"
            /\ UNCHANGED <<final_text_prompt, prompt_parts, fetch_k>>
    /\ UNCHANGED <<media_group_images_data, images_processed_count, fp_io,
                   mdVars, trVars, spVars, agVars, slVars>>

\* lines 527-536: the part of a fetched image is appended; a failed fetch
\* appends nothing.
AddPartAlways(parts, file_id, ok) == Append(parts, [file_id |-> file_id])
AddPart(parts, file_id, ok) == IF ok THEN Append(parts, [file_id |-> file_id]) ELSE parts

\* lines 520-540: one iteration of the fetch loop; the fetch succeeds or raises.
FlushFetch(ok) ==
    /\ fp_pc = "fetch"
    /\ fetch_k <= Len(media_group_images_data)
    /\ images_processed_count < MAX_IMAGE_INPUT
    /\ LET file_id == media_group_images_data[fetch_k].file_id
       IN /\ prompt_parts' = AddPart(prompt_parts, file_id, ok)
          /\ fp_io' = Append(fp_io, FlushEvent("fetch", None, <<[file_id |-> file_id]>>,
                                               IF ok THEN "ok" ELSE "Exception"))
    /\ images_processed_count' = IF ok THEN images_processed_count + 1
                                 ELSE images_processed_count
    /\ fetch_k' = fetch_k + 1
    /\ UNCHANGED <<fp_pc, media_group_images_data, final_text_prompt,
                   mdVars, trVars, spVars, agVars, slVars>>

\* lines 542-556 and 558-567: the fetch loop is over.  With no image fetched
\* the notice is next; otherwise the AI is called with prompt_parts, and it
\* answers with a text, with nothing, or raises.
FlushDecide(o) ==
    /\ fp_pc = "fetch"
    /\ fetch_k > Len(media_group_images_data) \/ images_processed_count >= MAX_IMAGE_INPUT
    /\ o \in {"text", "empty", "Exception"}
    /\ IF images_processed_count = 0
       THEN /\ fp_pc' = "notice"
            /\ UNCHANGED fp_io
       ELSE /\ fp_io' = Append(fp_io, FlushEvent("ai", None, prompt_parts, o))
            /\ fp_pc' = "answer"
    /\ UNCHANGED <<media_group_images_data, final_text_prompt, prompt_parts,
                   images_processed_count, fetch_k, mdVars, trVars, spVars, agVars, slVars>>

\* lines 517-518: first_message_id_in_group
first_message_id_in_group == Some(media_group_images_data[1].message_id)

\* A message sent as a reply to the first item and, if that send fails
\* (first, "ok" if not), once more without the reply reference (second).
WithFallback(kind, first, second) ==
    IF first = "ok"
    THEN <<FlushEvent(kind, first_message_id_in_group, <<>>, first)>>
    ELSE <<FlushEvent(kind, first_message_id_in_group, <<>>, first),
           FlushEvent(kind, None, <<>>, second)>>

\* lines 546-556: the notice that no image could be processed; "except
\* Exception" sends it again without the reply reference, in no try: its
\* exception leaves the callback.  Then return.
FlushNotice(first, second) ==
    /\ fp_pc = "notice"
    /\ first \in {"ok", "BadRequest", "TelegramError"}
    /\ second \in {"ok", "TelegramError"}
    /\ first = "ok" => second = "ok"
    /\ fp_io' = fp_io \o WithFallback("notice", first, second)
    /\ fp_pc' = IF second = "ok" THEN "done" ELSE "raised"
    /\ UNCHANGED <<media_group_images_data, final_text_prompt, prompt_parts,
                   images_processed_count, fetch_k, mdVars, trVars, spVars, agVars, slVars>>

\* lines 578-587 and 592-600: a message sent as a reply to the first item
\* and, if that send raises BadRequest, once more without the reply
\* reference; another exception of the first send is not caught there.
OnBadRequest(kind, first, second) ==
    IF first = "BadRequest" THEN WithFallback(kind, first, second)
    ELSE <<FlushEvent(kind, first_message_id_in_group, <<>>, first)>>
Delivered(first, second) == first = "ok" \/ (first = "BadRequest" /\ second = "ok")

\* lines 568-587: the answer of the AI goes to send_long_message as a reply
\* to the first item (send_long_message catches what its sends raise, lines
\* 842-904); no answer, to the message of lines 579-587, whose exceptions
\* the "except Exception" of line 588 catches as it catches those of the AI.
FlushAnswer(first, second) ==
    /\ fp_pc = "answer"
    /\ first \in {"ok", "BadRequest", "TelegramError"}
    /\ second \in {"ok", "TelegramError"}
    /\ first # "BadRequest" => second = "ok"
    /\ CASE Last(fp_io).outcome = "text" ->
              /\ first = "ok"
              /\ fp_io' = Append(fp_io, FlushEvent("send_long_message",
                                                   first_message_id_in_group, <<>>, "ok"))
              /\ fp_pc' = "done"
         [] Last(fp_io).outcome = "empty" ->
              /\ fp_io' = fp_io \o OnBadRequest("empty_reply", first, second)
              /\ fp_pc' = IF Delivered(first, second) THEN "done" ELSE "error"
         [] OTHER ->
              /\ first = "ok"
              /\ fp_pc' = "error"
              /\ UNCHANGED fp_io
    /\ UNCHANGED <<media_group_images_data, final_text_prompt, prompt_parts,
                   images_processed_count, fetch_k, mdVars, trVars, spVars, agVars, slVars>>

\* lines 588-600: "except Exception": the error message, sent as the one
\* above; what its sends raise, BadRequest of the first apart, leaves the
\* callback.
FlushError(first, second) ==
    /\ fp_pc = "error"
    /\ first \in {"ok", "BadRequest", "TelegramError"}
    /\ second \in {"ok", "TelegramError"}
    /\ first # "BadRequest" => second = "ok"
    /\ fp_io' = fp_io \o OnBadRequest("error", first, second)
    /\ fp_pc' = IF Delivered(first, second) THEN "done" ELSE "raised"
    /\ UNCHANGED <<media_group_images_data, final_text_prompt, prompt_parts,
                   images_processed_count, fetch_k, mdVars, trVars, spVars, agVars, slVars>>

\* The state after two photos of one album of the group chat were appended
\* in the same instant: the buffer is full and its job is pending.  (arrivals
\* counts the updates handled from here on.)
FullAlbum ==
    LET u(id) == CHOOSE v \in AlbumUpdates : v.chat_id = GroupChat /\ v.message_id = id
    IN <<ImageItem(u(5), PhotoRouting(u(5)), 1, 0), ImageItem(u(2), PhotoRouting(u(2)), 2, 0)>>
AgInitFull ==
    /\ media_groups = WithGroup(<<>>, GroupChat, "7", FullAlbum)
    /\ notified_overflow = {}
    /\ job_queue = Reschedule(<<>>, GroupChat, "7", 0)
    /\ callbacks = <<>>
    /\ handlers = <<>>
    /\ now = 0
    /\ arrivals = 0
    /\ appended = Len(FullAlbum)
    /\ dropped = NoneDropped
    /\ flushes = {}
    /\ flushed = 0
    /\ returned_early = {}
    /\ overflow_notices = <<>>

(***************************************************************************)
(* bot_handlers.py, handle_message (lines 63-105) and handle_photo_message *)
(* (lines 277-316) on the same string in a group chat                      *)
(***************************************************************************)
TrAlphabet == {"/", "a", "i", "A", " ", "x"}

TrIdle ==
    /\ tr_pc = "idle" /\ user_message = <<>>
    /\ text_routing = None /\ photo_routing = None

\* A string sent in the group, not as a reply to the bot: once as the text
\* of a message, once as the caption of a photo.
TrInit ==
    /\ tr_pc = "routing"
    /\ user_message \in TextsUpTo(TrAlphabet, MaxMessageLen)
    /\ text_routing = None /\ photo_routing = None

\* handle_message, lines 46-105, on the string as a text.
RouteText ==
    /\ tr_pc = "routing"
    /\ text_routing = None
    /\ text_routing' = Some(MessageRouting([chat_id |-> GroupChat, reply_to_bot |-> FALSE,
                                            text |-> Some(user_message)]))
    /\ tr_pc' = IF photo_routing # None THEN "routed" ELSE tr_pc
    /\ UNCHANGED <<user_message, photo_routing, mdVars, spVars, agVars, slVars, fpVars>>

\* handle_photo_message, lines 268-316, on the string as a caption.
RouteCaption ==
    /\ tr_pc = "routing"
    /\ photo_routing = None
    /\ photo_routing' = Some(PhotoRouting([chat_id |-> GroupChat, reply_to_bot |-> FALSE,
                                           caption |-> Some(user_message)]))
    /\ tr_pc' = IF text_routing # None THEN "routed" ELSE tr_pc
    /\ UNCHANGED <<user_message, text_routing, mdVars, spVars, agVars, slVars, fpVars>>

(***************************************************************************)
(* Specifications                                                          *)
(***************************************************************************)
Init == AgInit /\ MdIdle /\ SpIdle /\ SlIdle /\ FpIdle /\ TrIdle
Next ==
    \/ \E msg \in Updates : HandlePhoto(msg)
    \/ \E h \in DOMAIN handlers : OverflowNotified(h)
    \/ \E h \in DOMAIN handlers : OverflowNotifyRaised(h)
    \/ Tick
    \/ \E j \in DOMAIN job_queue : FireJob(j)
    \/ \E t \in DOMAIN callbacks : CallbackStart(t)
    \/ \E f \in flushes : CallbackFlush(f)
Spec == Init /\ [][Next]_vars

\* The aggregator on the photos of one album that are responded to, with
\* the scheduling of the job queue and of the event loop: the clock advances
\* while a job waits for it, a job whose time has come fires, and a callback
\* that was made a task is run.
LiveUpdates == {u \in Updates : u.chat_id = GroupChat /\ PhotoRouting(u).should_respond}
NextLive ==
    \/ \E msg \in LiveUpdates : HandlePhoto(msg)
    \/ \E h \in DOMAIN handlers : OverflowNotified(h)
    \/ \E h \in DOMAIN handlers : OverflowNotifyRaised(h)
    \/ Tick
    \/ \E j \in DOMAIN job_queue : FireJob(j)
    \/ \E t \in DOMAIN callbacks : CallbackStart(t)
    \/ \E f \in flushes : CallbackFlush(f)
SpecLive ==
    /\ Init /\ [][NextLive]_vars
    /\ WF_vars(Tick)
    /\ WF_vars(\E j \in DOMAIN job_queue : FireJob(j))
    /\ WF_vars(\E t \in DOMAIN callbacks : CallbackStart(t))

InitMd == MdInit /\ SpIdle /\ AgIdle /\ SlIdle /\ FpIdle /\ TrIdle
NextMd == MdBalance \/ MdRebalance
SpecMd == InitMd /\ [][NextMd]_vars

InitSplit == SpInit /\ MdIdle /\ AgIdle /\ SlIdle /\ FpIdle /\ TrIdle
NextSplit == SplitLine \/ SplitFinish
SpecSplit == InitSplit /\ [][NextSplit]_vars

InitSend == SendInit /\ MdIdle /\ AgIdle /\ FpIdle /\ TrIdle
NextSend ==
    \/ SendEnter
    \/ SendChunk
    \/ \E o \in Outcomes : SendAttempt(o)
    \/ \E o \in {"ok", "TelegramError"} : SendNotice(o)
SpecSend == InitSend /\ [][NextSend]_vars

InitFlush == FlushInit /\ MdIdle /\ SpIdle /\ AgIdle /\ SlIdle /\ TrIdle
NextFlush ==
    \/ \E ok \in BOOLEAN : FlushChatAction(ok)
    \/ \E ok \in BOOLEAN : FlushFetch(ok)
    \/ \E o \in {"text", "empty", "Exception"} : FlushDecide(o)
    \/ \E first \in {"ok", "BadRequest", "TelegramError"}, second \in {"ok", "TelegramError"} :
          FlushNotice(first, second)
    \/ \E first \in {"ok", "BadRequest", "TelegramError"}, second \in {"ok", "TelegramError"} :
          FlushAnswer(first, second)
    \/ \E first \in {"ok", "BadRequest", "TelegramError"}, second \in {"ok", "TelegramError"} :
          FlushError(first, second)
SpecFlush == InitFlush /\ [][NextFlush]_vars

\* send_long_message on a long text, every send_message returning.
InitLong == LongInit /\ MdIdle /\ AgIdle /\ FpIdle /\ TrIdle
NextLong == SendEnter \/ SendChunk \/ SendAttempt("ok")
SpecLong == InitLong /\ [][NextLong]_vars

\* The two handlers on one string.
InitTrigger == TrInit /\ MdIdle /\ SpIdle /\ AgIdle /\ SlIdle /\ FpIdle
NextTrigger == RouteText \/ RouteCaption
SpecTrigger == InitTrigger /\ [][NextTrigger]_vars

\* The aggregator from a full buffer on.
InitFull == AgInitFull /\ MdIdle /\ SpIdle /\ SlIdle /\ FpIdle /\ TrIdle
SpecFull == InitFull /\ [][Next]_vars

(***************************************************************************)
(* Properties of the chunk splitter, checked under SpecSplit               *)
(***************************************************************************)
AllSpace(s) == \A k \in 1..Len(s) : IsSpace(s[k])

\* text = w0 c1 w1 ... cn wn from position pos and chunk k on, every w
\* a (possibly empty) run of whitespace and c1..cn the chunks in order.
RECURSIVE Reassembles(_, _, _, _)
Reassembles(text, pos, cs, k) ==
    IF k > Len(cs) THEN AllSpace(SubSeq(text, pos, Len(text)))
    ELSE \E j \in pos..(Len(text) + 1) :
            /\ AllSpace(SubSeq(text, pos, j - 1))
            /\ j + Len(cs[k]) - 1 <= Len(text)
            /\ SubSeq(text, j, j + Len(cs[k]) - 1) = cs[k]
            /\ Reassembles(text, j + Len(cs[k]), cs, k + 1)

\* C5: every chunk the splitting step produces (at every point of the loop
\* and at its end) has length at most the limit.
C5_ChunkLengthBound == \A k \in 1..Len(chunks) : Len(chunks[k]) <= limit

\* C5 witness: a text longer than the limit was split into several chunks,
\* one of them of exactly the limit's length.
C5_Witness ==
    /\ sp_pc = "split_done"
    /\ Len(text_to_send) > limit
    /\ Len(chunks) >= 2
    /\ \E k \in 1..Len(chunks) : Len(chunks[k]) = limit

\* C6: the chunk sequence the splitter produces holds no empty chunk, and
\* every chunk is trimmed of leading and trailing whitespace.
C6_NoEmptyChunkAllTrimmed ==
    sp_pc = "split_done" =>
        \A k \in 1..Len(chunks) : chunks[k] # <<>> /\ Strip(chunks[k]) = chunks[k]

\* C7: the chunks in ordinal order reproduce the text up to whitespace removed
\* at the chunk boundaries: the text is the chunks, in order, with runs of
\* whitespace before, between and after them.
C7_RoundTrip ==
    sp_pc = "split_done" => Reassembles(text_to_send, 1, chunks, 1)

\* C7 witness: a split into several chunks that removed boundary whitespace.
C7_Witness ==
    /\ sp_pc = "split_done"
    /\ Len(chunks) >= 2
    /\ Flatten(chunks) # text_to_send
    /\ \E k \in 1..Len(chunks) : Len(chunks[k]) >= 2

\* C23: an iteration of the loop on a line of length n above the limit L
\* leaves the chunks it found, adds the accumulated chunk (trimmed) if there
\* is one, then ceil(n/L) slices of the line, consecutive and in order, each
\* of exactly L characters but possibly the last, and nothing is left
\* accumulated.
C23_ForcedSplit ==
    [][(sp_pc = "loop" /\ line_i <= Len(Lines(text_to_send))
          /\ Len(Lines(text_to_send)[line_i]) > limit) =>
        LET line == Lines(text_to_send)[line_i]
            n == Len(line)
            q == (n + limit - 1) \div limit
            held == IF current_chunk # <<>> THEN 1 ELSE 0
            base == Len(chunks) + held
        IN /\ Len(chunks') = base + q
           /\ SubSeq(chunks', 1, Len(chunks)) = chunks
           /\ held = 1 => chunks'[base] = Strip(current_chunk)
           /\ \A j \in 1..q :
                 /\ chunks'[base + j] =
                       SubSeq(line, (j - 1) * limit + 1, IF j * limit < n THEN j * limit ELSE n)
                 /\ j < q => Len(chunks'[base + j]) = limit
           /\ current_chunk' = <<>>]_vars

\* C23 witness: the second line was cut in a full slice and a shorter one
\* after the first line, accumulated, was emitted.
C23_Witness ==
    /\ sp_pc = "loop" /\ line_i = 3
    /\ Len(chunks) = 3
    /\ chunks[1] # <<>>
    /\ chunks[1] = Lines(text_to_send)[1]
    /\ Len(chunks[2]) = limit
    /\ Len(chunks[3]) \in 1..(limit - 1)
    /\ chunks[2] \o chunks[3] = Lines(text_to_send)[2]

(***************************************************************************)
(* Properties of the markup balancer, checked under SpecMd                 *)
(***************************************************************************)
\* C8: balancing the balancer's output again changes nothing.
C8_Idempotent == md_pc = "twice" => md_twice = md_once

\* C9: the balancer's output, scanned by the same rules, leaves no open tag.
C9_OutputBalanced == md_pc \in {"once", "twice"} => OpenTags(md_once) = <<>>

\* C10: a text whose scan leaves no open tag is returned unchanged (the empty
\* text included).
C10_BalancedUnchanged ==
    (md_pc \in {"once", "twice"} /\ OpenTags(md_text) = <<>>) => md_once = md_text

\* C10 witness: a balanced text that holds a closed code fence was balanced.
C10_Witness ==
    /\ md_pc = "once"
    /\ OpenTags(md_text) = <<>>
    /\ \E k \in 1..Len(md_text) : FenceAt(md_text, k)
    /\ md_once = md_text

(***************************************************************************)
(* Properties of the media-group aggregator, checked under Spec            *)
(***************************************************************************)
Keys == {<<c, g>> \in {<<u.chat_id, u.media_group_id>> : u \in Updates} : TRUE}
Buffer(key) == GroupItems(media_groups, key[1], key[2])
ItemsOf(items) == {items[k] : k \in 1..Len(items)}
FlushesOf(key) == {f \in flushes : f.chat_id = key[1] /\ f.media_group_id = key[2]}
\* The appended items of the key: still buffered, or with a running callback.
AppendedTo(key) == ItemsOf(Buffer(key)) \cup UNION {ItemsOf(f.images) : f \in FlushesOf(key)}

\* C1: if item A of a media group was appended and item B of the same group
\* was appended after it before the quiet interval had elapsed, then a flush
\* that receives A receives B too and runs no earlier than a full interval
\* after B's arrival.
C1_DebounceReset ==
    \A key \in Keys : \A A, B \in AppendedTo(key) :
        (A.seq < B.seq /\ B.at < A.at + MEDIA_GROUP_PROCESSING_DELAY) =>
            \A f \in FlushesOf(key) :
                A \in ItemsOf(f.images) =>
                    /\ B \in ItemsOf(f.images)
                    /\ f.at >= B.at + MEDIA_GROUP_PROCESSING_DELAY

\* C2: a buffered item list holds at most one entry per message_id.
C2_OneEntryPerMessageId ==
    \A key \in Keys : \A i, j \in 1..Len(Buffer(key)) :
        Buffer(key)[i].message_id = Buffer(key)[j].message_id => i = j

\* C2 witness: of two updates the first was appended and the second, with
\* the message_id of the first, was dropped; the buffer holds the one entry.
C2_Witness ==
    /\ arrivals = 2 /\ appended = 1 /\ dropped.duplicate = 1
    /\ \E key \in Keys : Len(Buffer(key)) = 1

\* C24: the items of a list, buffered or popped by a callback, are in the
\* order in which their handlers checked for a duplicate and appended them
\* (seq), whatever handlers and callbacks ran in between.
C24_ArrivalOrderKept ==
    /\ \A key \in Keys : \A i, j \in 1..Len(Buffer(key)) :
           i < j => Buffer(key)[i].seq < Buffer(key)[j].seq
    /\ \A f \in flushes : \A i, j \in 1..Len(f.images) :
           i < j => f.images[i].seq < f.images[j].seq

\* C24 witness: a callback popped two items, appended at different times,
\* while a handler of the same media group was suspended in its reply.
C24_Witness ==
    \E f \in flushes : \E h \in DOMAIN handlers :
        /\ h.chat_id = f.chat_id /\ h.media_group_id = f.media_group_id
        /\ Len(f.images) = 2
        /\ f.images[1].at < f.images[2].at

\* The number of pending jobs named for the key.
RECURSIVE BagCount(_, _)
BagCount(bag, S) ==
    IF S = {} THEN 0
    ELSE LET x == CHOOSE y \in S : TRUE IN bag[x] + BagCount(bag, S \ {x})
PendingJobs(key) ==
    BagCount(job_queue, {j \in DOMAIN job_queue : j.name = JobName(key[1], key[2])})

\* C3: at most one flush job is pending per (chat_id, media_group_id).
C3_OnePendingJobPerKey == \A key \in Keys : PendingJobs(key) <= 1

\* C3 witness: a job was rescheduled: the one pending job of a key is due a
\* full interval after the latest of two items that arrived at different times.
C3_Witness ==
    \E key \in Keys : \E j \in DOMAIN job_queue :
        /\ j.name = JobName(key[1], key[2])
        /\ PendingJobs(key) = 1
        /\ Len(Buffer(key)) = 2
        /\ Buffer(key)[1].at < Buffer(key)[2].at
        /\ j.due = Buffer(key)[2].at + MEDIA_GROUP_PROCESSING_DELAY

\* One job is pending for the key, due a full interval from now.
FullIntervalAhead(key) ==
    /\ PendingJobs(key) = 1
    /\ \A j \in DOMAIN job_queue :
          j.name = JobName(key[1], key[2]) => j.due = now + MEDIA_GROUP_PROCESSING_DELAY

\* C28: when the handler of a photo that is responded to ends, be it for an
\* item appended, a duplicate or an overflow, with or without the overflow
\* notice, exactly one job is pending for the (chat, media group) of the
\* photo, due a full interval later.
C28_EveryArrivalReschedules ==
    [][/\ \A msg \in Updates :
            (HandlePhoto(msg) /\ PhotoRouting(msg).should_respond /\ handlers' = handlers)
               => FullIntervalAhead(<<msg.chat_id, msg.media_group_id>>)'
       /\ \A h \in DOMAIN handlers :
            (OverflowNotified(h) \/ OverflowNotifyRaised(h))
               => FullIntervalAhead(<<h.chat_id, h.media_group_id>>)']_vars

\* A callback of the key was made a task and has not run yet.
CallbackDue(key) ==
    \E t \in DOMAIN callbacks : t.chat_id = key[1] /\ t.media_group_id = key[2]

\* C31: a buffer that is not empty always has a job pending for its key, or
\* a callback of its key that fired and has not run yet; and so, with the
\* clock, the job queue and the event loop doing their work, whenever a
\* buffer holds items there is a later time when no buffer holds any (a
\* buffer is emptied by the pop of a callback only, which hands its items to
\* a flush).
C31_BufferedItemsGetFlushed ==
    /\ [](\A key \in Keys :
            Buffer(key) # <<>> => (PendingJobs(key) >= 1 \/ CallbackDue(key)))
    /\ (\E key \in Keys : Buffer(key) # <<>>) ~> (\A key \in Keys : Buffer(key) = <<>>)

\* C31 witness: the last update was appended and then handed to a flush:
\* no buffer is left, no job, no callback.
C31_Witness ==
    /\ arrivals = MaxArrivals /\ appended = MaxArrivals
    /\ \E f \in flushes : \E x \in ItemsOf(f.images) : x.seq = MaxArrivals
    /\ \A key \in Keys : Buffer(key) = <<>>
    /\ job_queue = <<>> /\ callbacks = <<>>

\* The number of places (buffers and flushes) that hold an item.
RECURSIVE SumLen(_)
SumLen(S) ==
    IF S = {} THEN 0
    ELSE LET x == CHOOSE y \in S : TRUE IN Len(x.images) + SumLen(S \ {x})
RECURSIVE SumBuffers(_)
SumBuffers(S) ==
    IF S = {} THEN 0
    ELSE LET x == CHOOSE y \in S : TRUE IN Len(Buffer(x)) + SumBuffers(S \ {x})
AllHeld == UNION {AppendedTo(key) : key \in Keys}

\* C4: the callback pops the whole list at once: every appended item is in
\* exactly one place, its buffer, one running flush or a flush that ended
\* (never in two, never still buffered once handed over, never lost), and a
\* callback that finds no buffer for its key goes no further than line 475
\* (no fetch, AI call or send).
C4_FlushOnceOrNoOp ==
    /\ SumBuffers(Keys) + SumLen(flushes) + flushed = appended
    /\ Cardinality({x.seq : x \in AllHeld}) + flushed = appended
    /\ \A f \in flushes : f.images # <<>>

\* C4 witness: a callback popped a list of two items, and another callback
\* of the same key found nothing and returned.
C4_Witness ==
    \E f \in flushes :
        /\ Len(f.images) = 2
        /\ <<f.chat_id, f.media_group_id>> \in returned_early
        /\ Buffer(<<f.chat_id, f.media_group_id>>) = <<>>

(***************************************************************************)
(* Properties of the send loop of send_long_message, checked under SpecSend *)
(***************************************************************************)
\* The entries of io that are sends of chunks, and sends of error notices.
ChunkSends == {k \in DOMAIN io : io[k].kind = "chunk"}
Notices == {k \in DOMAIN io : io[k].kind = "notice"}
\* The send io[k] was a chunk in Markdown mode rejected as unparsable.
FormatRejected(k) ==
    /\ k \in ChunkSends
    /\ io[k].parse_mode = MARKDOWN
    /\ io[k].outcome = "BadRequest_parse"
\* The send io[m] is chunk i as plain text.
PlainSendOf(m, i) ==
    /\ m \in ChunkSends
    /\ io[m].i = i
    /\ io[m].parse_mode = PLAIN
    /\ io[m].text = chunks[i + 1]

\* C11: when the call has returned, every chunk whose send in Markdown mode
\* was rejected as unparsable was sent once more as plain text after the
\* rejection, whatever came before the rejection for that chunk.
C11_FormatFallbackBeforeGivingUp ==
    sp_pc = "return" =>
        \A k \in DOMAIN io :
            FormatRejected(k) => \E m \in DOMAIN io : m > k /\ PlainSendOf(m, io[k].i)

\* C12: when the first send of the first chunk is rejected as unparsable in
\* Markdown mode, the next send is that chunk as plain text; and if that
\* send fails too, then by the return of the call exactly one error notice
\* was sent and no send was made for a later chunk.
C12_FirstChunkFallbackThenStop ==
    \A k \in DOMAIN io :
        (FormatRejected(k) /\ io[k].i = 0 /\ io[k].attempt = 0 /\ k < Len(io)) =>
            /\ PlainSendOf(k + 1, 0)
            /\ io[k + 1].outcome # "ok" =>
                  /\ \A m \in ChunkSends : io[m].i = 0
                  /\ sp_pc = "return" => Cardinality(Notices) = 1

\* C13: a chunk send that is rate limited is followed by the sleep; the first
\* rate-limited send of a chunk is then followed by one more send of the same
\* chunk with the same text and mode; and when that send is rate limited
\* again, the failure is reported (the function returns nothing to its
\* caller, so: an error notice is sent) by the return of the call.
C13_RateLimitRetryOnceThenSurface ==
    \A k \in ChunkSends :
        io[k].outcome = "RetryAfter" =>
            /\ k < Len(io) /\ io[k + 1].kind = "sleep"
            /\ IF \E m \in ChunkSends : m < k /\ io[m].i = io[k].i /\ io[m].outcome = "RetryAfter"
               THEN sp_pc = "return" => Notices # {}
               ELSE (sp_pc = "return" \/ k + 2 <= Len(io)) =>
                        /\ k + 2 <= Len(io)
                        /\ io[k + 2].kind = "chunk"
                        /\ io[k + 2].i = io[k].i
                        /\ io[k + 2].text = io[k].text
                        /\ io[k + 2].parse_mode = io[k].parse_mode

\* C14: every send of a chunk of ordinal 1 or more, and every send of an
\* error notice, carries no reply reference.
C14_OnlyFirstChunkReplies ==
    \A k \in DOMAIN io :
        (io[k].kind = "notice" \/ (io[k].kind = "chunk" /\ io[k].i >= 1)) =>
            io[k].reply_to = None

\* C14 witness: a call with a reply reference sent its first chunk with the
\* reference, sent an error notice, and sent a later chunk.
C14_Witness ==
    /\ reply_to_message_id # None
    /\ \E k \in ChunkSends : io[k].i = 0 /\ io[k].reply_to = reply_to_message_id
    /\ \E k \in ChunkSends : io[k].i >= 1
    /\ Notices # {}

\* C15: when a call whose text holds something to send (a chunk that is not
\* empty) has returned, a chunk was sent successfully or an error notice was
\* sent (the function returns nothing to its caller).
C15_NoSilentTotalFailure ==
    (sp_pc = "return" /\ \E c \in DOMAIN chunks : chunks[c] # <<>>) =>
        \/ \E k \in ChunkSends : io[k].outcome = "ok"
        \/ Notices # {}

\* C16: a call sends at most one error notice.
C16_AtMostOneNotice == Cardinality(Notices) <= 1

\* C16 witness: a call has returned after the sends of two chunks failed for
\* good, with one error notice.
C16_Witness ==
    /\ sp_pc = "return"
    /\ \E k, m \in ChunkSends :
          /\ io[k].i = 0 /\ io[k].outcome = "BadRequest"
          /\ io[m].i = 1 /\ io[m].outcome = "BadRequest"
    /\ Cardinality(Notices) = 1

\* C21: a call with an empty text and a raw text with something to show goes
\* on with the raw text in plain format, and every chunk it then sends is sent
\* without a parse mode; a call with an empty text and no raw text, or a blank
\* one, returns at once and sends nothing.
C21_EmptyTextFallback ==
    /\ [][sp_pc = "enter" /\ text_to_send = <<>> =>
             IF Truthy(original_text_if_markdown_fails)
                /\ Strip(original_text_if_markdown_fails[1]) # <<>>
             THEN /\ text_to_send' = original_text_if_markdown_fails[1]
                  /\ parse_mode' = PLAIN
                  /\ chunks' = SplitChunks(original_text_if_markdown_fails[1], limit)
                  /\ sp_pc' = "chunk"
             ELSE sp_pc' = "return" /\ io' = <<>>]_vars
    /\ [](sp_pc # "enter" /\ parse_mode = PLAIN =>
             \A k \in ChunkSends :
                 io[k].parse_mode = PLAIN /\ io[k].text = chunks[io[k].i + 1])
    /\ [](sp_pc = "return" /\ chunks = <<>> => io = <<>>)

\* The raw text was sent in place of the empty text, in two chunks.
C21_Witness ==
    /\ sp_pc = "return" /\ parse_mode = PLAIN
    /\ Truthy(original_text_if_markdown_fails)
    /\ text_to_send = original_text_if_markdown_fails[1]
    /\ Len(chunks) = 2
    /\ \A c \in 1..2 : \E k \in ChunkSends :
           io[k].i = c - 1 /\ io[k].outcome = "ok" /\ io[k].parse_mode = PLAIN

\* C27: in a call in Markdown mode the first attempt for every chunk sends
\* the chunk balanced again, in Markdown mode, whatever happened to the
\* chunks before it; and the send that follows a rejection of the chunk as
\* unparsable is the chunk as the splitter gave it, with no parse mode.
C27_DowngradeIsChunkLocal ==
    [][(sp_pc = "attempt" /\ parse_mode = MARKDOWN) =>
        LET sent == io'[Len(io) + 1]
        IN /\ sent.kind = "chunk" /\ sent.i = chunk_i
           /\ attempt = 0 =>
                 /\ sent.parse_mode = MARKDOWN
                 /\ sent.text = ensure_valid_markdown(chunks[chunk_i + 1])
           /\ (io # <<>> /\ FormatRejected(Len(io)) /\ io[Len(io)].i = chunk_i) =>
                 /\ sent.parse_mode = PLAIN
                 /\ sent.text = chunks[chunk_i + 1]]_vars

\* C27 witness: the first chunk was downgraded to plain text, and the
\* second chunk was then sent in Markdown mode, balanced again.
C27_Witness ==
    /\ parse_mode = MARKDOWN
    /\ Len(chunks) = 2
    /\ \E k, m \in ChunkSends :
          /\ io[k].i = 0 /\ FormatRejected(k)
          /\ k < Len(io)
          /\ io[k + 1].kind = "chunk" /\ io[k + 1].parse_mode = PLAIN
          /\ io[k + 1].text # io[k].text
          /\ io[m].i = 1 /\ io[m].parse_mode = MARKDOWN
          /\ io[m].text # chunks[2]

\* C30: in a call with a reply reference, the first send of a chunk, if
\* there is one, carries the reference.
C30_FirstSendReplies ==
    \A k \in ChunkSends :
        (reply_to_message_id # None /\ \A m \in ChunkSends : k <= m) =>
            io[k].reply_to = reply_to_message_id

(***************************************************************************)
(* Properties of send_long_message on a long text, checked under SpecLong  *)
(***************************************************************************)
\* C29: every text sent for a chunk is no longer than
\* TELEGRAM_MAX_MESSAGE_LENGTH: what the balancer adds to a chunk fits the
\* room left below it.
C29_SentTextFitsChannel ==
    \A k \in ChunkSends : Len(io[k].text) <= TELEGRAM_MAX_MESSAGE_LENGTH

Paces == {k \in DOMAIN io : io[k].kind = "pace"}

\* C26: the chunks are sent in the order of their ordinals; between a send
\* of a chunk and a send of a later chunk there is a pacing sleep; and when
\* the call has returned, no pacing sleep came after the last send of a
\* chunk.
C26_PacedInOrder ==
    /\ \A k, m \in ChunkSends :
          k < m =>
             /\ io[k].i <= io[m].i
             /\ io[k].i < io[m].i => \E p \in Paces : k < p /\ p < m
    /\ sp_pc = "return" =>
          \A p \in Paces : \E k \in ChunkSends : p < k

\* C22: a text of a little more than twice the limit (9000 characters
\* against 4076), every send returning, is delivered as exactly three chunks,
\* and the first of them, and only it, carries the caller's reply reference.
C22_ThreeChunksFirstReplies ==
    sp_pc = "return" =>
        /\ Cardinality(ChunkSends) = 3
        /\ \A k \in ChunkSends :
               io[k].reply_to = IF k = 1 THEN reply_to_message_id ELSE None

(***************************************************************************)
(* Properties of the flush, checked under SpecFlush                        *)
(***************************************************************************)
\* The prompt is chosen: the callback is past line 514.
PromptChosen == fp_pc \in {"fetch", "notice", "answer", "error", "done"}
\* The items sent with a trigger or as a reply whose caption_for_ai is a
\* text that is not empty.
TriggeredWithCaption ==
    {k \in 1..Len(media_group_images_data) :
        /\ IsTriggered(media_group_images_data[k])
        /\ Truthy(media_group_images_data[k].caption_for_ai)}

\* C17: the prompt is (1) the caption of an item that was sent with a
\* trigger or as a reply to the bot, if that caption is not empty; (2) if
\* there is no such item, the first caption that is not empty, in arrival
\* order; (3) if there is none, the default prompt.
C17_CaptionPrecedence ==
    PromptChosen =>
        IF TriggeredWithCaption # {}
        THEN \E k \in TriggeredWithCaption :
                final_text_prompt = media_group_images_data[k].caption_for_ai
        ELSE IF FirstCaption(media_group_images_data) # None
        THEN final_text_prompt = FirstCaption(media_group_images_data)
        ELSE final_text_prompt = Some(DEFAULT_PROMPT_FOR_IMAGE_IF_NO_CAPTION)

\* C18: when exactly one item was sent with a trigger or as a reply to the
\* bot, and its caption is not empty, the prompt is that caption.
C18_SingleTriggeredCaptionWins ==
    PromptChosen =>
        \A k \in 1..Len(media_group_images_data) :
            (/\ k \in TriggeredWithCaption
             /\ \A m \in 1..Len(media_group_images_data) :
                    IsTriggered(media_group_images_data[m]) => m = k) =>
                final_text_prompt = media_group_images_data[k].caption_for_ai

\* C18 witness: the second of two items is the only one sent as a reply to
\* the bot, the first has another caption, and the prompt is the caption of
\* the second.
C18_Witness ==
    /\ PromptChosen
    /\ Len(media_group_images_data) = 2
    /\ ~IsTriggered(media_group_images_data[1])
    /\ Truthy(media_group_images_data[1].caption_for_ai)
    /\ 2 \in TriggeredWithCaption
    /\ media_group_images_data[1].caption_for_ai # media_group_images_data[2].caption_for_ai
    /\ final_text_prompt = media_group_images_data[2].caption_for_ai

\* The file_ids whose fetch succeeded, in the order of the fetches, and the
\* file_ids of the image parts of a list of parts.
FetchedOk == SelectSeq(fp_io, LAMBDA e : e.kind = "fetch" /\ e.outcome = "ok")
FileIdsOf(parts) == [k \in 1..(Len(parts) - 1) |-> parts[k + 1].file_id]
EventsOf(kind) == {k \in DOMAIN fp_io : fp_io[k].kind = kind}
\* The fetch loop is over and what follows it has been done.
AfterFetches == fp_pc \in {"answer", "error", "done"}

\* C19: every item is fetched, in arrival order, whatever the outcomes of
\* the fetches before it; the AI is called if and only if a fetch succeeded,
\* and then once, with the prompt followed by the images whose fetch
\* succeeded, in arrival order; when none succeeded the notice is sent and
\* the AI is not called.
C19_FetchFailureTolerance ==
    /\ \A k \in EventsOf("ai") :
          /\ FetchedOk # <<>>
          /\ Head(fp_io[k].parts).text = final_text_prompt[1]
          /\ FileIdsOf(fp_io[k].parts) = [n \in DOMAIN FetchedOk |-> FetchedOk[n].parts[1].file_id]
    /\ AfterFetches =>
          /\ [k \in 1..Cardinality(EventsOf("fetch")) |-> fp_io[k].parts[1].file_id]
                = [k \in DOMAIN media_group_images_data |-> media_group_images_data[k].file_id]
          /\ IF FetchedOk # <<>>
             THEN Cardinality(EventsOf("ai")) = 1 /\ EventsOf("notice") = {}
             ELSE EventsOf("ai") = {} /\ EventsOf("notice") # {}

\* C19 witness: the first fetch failed and the second succeeded, and the AI
\* was called with the prompt and the second image only.
C19_Witness ==
    /\ Len(fp_io) >= 3
    /\ fp_io[1].kind = "fetch" /\ fp_io[1].outcome = "Exception"
    /\ fp_io[2].kind = "fetch" /\ fp_io[2].outcome = "ok"
    /\ fp_io[3].kind = "ai"
    /\ FileIdsOf(fp_io[3].parts) = <<media_group_images_data[2].file_id>>

\* The messages of apology that reached the user.
Apologies ==
    {k \in DOMAIN fp_io : fp_io[k].kind \in {"notice", "empty_reply", "error"}
                           /\ fp_io[k].outcome = "ok"}

\* C25: whatever the chat action, the fetches, the AI and the sends do, no
\* exception leaves process_media_group_callback, and when it has returned
\* after fetching no image, or after the AI gave no answer or raised, the
\* user got exactly one message of apology.
C25_NothingEscapesOneApology ==
    /\ fp_pc # "raised"
    /\ (fp_pc = "done" /\ (images_processed_count = 0
                            \/ \E k \in EventsOf("ai") : fp_io[k].outcome # "text"))
          => Cardinality(Apologies) = 1

(***************************************************************************)
(* Properties of the overflow of a buffer, checked under SpecFull          *)
(***************************************************************************)
\* C20: a buffer never holds more than MAX_IMAGE_INPUT items, and the
\* overflow notice is delivered at most once for a submission, whatever the
\* arrivals and the order in which the suspended handlers resume.
C20_BoundedBufferOneOverflowNotice ==
    /\ \A key \in Keys : Len(Buffer(key)) <= MAX_IMAGE_INPUT
    /\ \A sub \in DOMAIN overflow_notices : overflow_notices[sub] <= 1

(***************************************************************************)
(* The sends of send_long_message counted, checked under SpecSend           *)
(***************************************************************************)
SendsOfChunk(i) == {k \in ChunkSends : io[k].i = i}

\* What the call still has ahead of it: the chunks not yet done, four steps
\* a chunk (its head, two sends, a notice), and the steps left in the chunk
\* at hand; before the split, more than any split of the text can need.
StepsLeft ==
    CASE sp_pc = "enter" ->
           4 * (Len(text_to_send) + Len(Flatten(original_text_if_markdown_fails)) + 3)
      [] sp_pc = "chunk" -> 4 * (Len(chunks) - chunk_i) + 4
      [] sp_pc = "attempt" -> 4 * (Len(chunks) - chunk_i) + 3 - attempt
      [] sp_pc = "notice" -> 4 * (Len(chunks) - chunk_i) + 1
      [] OTHER -> 0

\* C33: whatever the sends answer, a chunk is sent at most twice (a retry
\* after a rate limit and the retry as plain text count against the same
\* two), and the call makes at most two sends per chunk and one send of an
\* error notice in all; the call comes to its return: every step of it, a
\* send answered in any way included, lowers the count of the steps it has
\* left, which is never below zero and is zero only at the return.
C33_BoundedAttemptsThenReturn ==
    /\ [][/\ \A k \in (DOMAIN io') \ DOMAIN io :
                io'[k].kind = "chunk" =>
                    Cardinality({m \in DOMAIN io' : io'[m].kind = "chunk" /\ io'[m].i = io'[k].i})
                        <= max_retries_markdown_fail + 1
           /\ StepsLeft' < StepsLeft]_vars
    /\ [](Cardinality(ChunkSends) + Cardinality(Notices) <= 2 * Len(chunks) + 1)
    /\ [](StepsLeft >= 0 /\ (StepsLeft = 0 <=> sp_pc = "return"))

\* C33 witness: a call has returned whose first chunk was rate limited and
\* then rejected as unparsable, with its error notice, and whose second chunk
\* was rate limited twice: two sends of each, five sends in all.
C33_Witness ==
    /\ sp_pc = "return"
    /\ Len(chunks) = 2
    /\ \E k, m \in SendsOfChunk(0) :
          /\ k < m /\ io[k].outcome = "RetryAfter" /\ io[m].outcome = "BadRequest_parse"
    /\ \A k \in SendsOfChunk(1) : io[k].outcome = "RetryAfter"
    /\ Cardinality(SendsOfChunk(1)) = 2
    /\ Cardinality(Notices) = 1
    /\ Cardinality(ChunkSends) + Cardinality(Notices) = 2 * Len(chunks) + 1

(***************************************************************************)
(* The overflow flag, checked under SpecLive                               *)
(***************************************************************************)
FlagSet(key) == NotifiedKey(key[1], key[2]) \in notified_overflow

\* C34: whenever the overflow flag of a (chat, media group) is set, a job
\* of that key is pending or a callback of it has yet to run; a flag that
\* is set is cleared later on; and a photo that overflows the buffer while
\* the flag of its key is not set has the notice sent for it.
C34_OverflowFlagDoesNotLeak ==
    /\ [](\A key \in Keys : FlagSet(key) => (PendingJobs(key) >= 1 \/ CallbackDue(key)))
    /\ (notified_overflow # {}) ~> (notified_overflow = {})
    /\ [][(dropped'.overflow > dropped.overflow /\ handlers' = handlers) =>
              \E key \in Keys : FlagSet(key) /\ Len(Buffer(key)) = MAX_IMAGE_INPUT]_vars

\* C34 witness: the sender of an album was told of its overflow, the flag
\* that was set with it has been cleared by the callback of the album, and
\* nothing of the album is pending.
C34_Witness ==
    /\ arrivals = MaxArrivals
    /\ DOMAIN overflow_notices # {}
    /\ notified_overflow = {}
    /\ job_queue = <<>> /\ callbacks = <<>> /\ handlers = <<>>
    /\ flushes = {}

(***************************************************************************)
(* Properties of the routing, checked under SpecTrigger                    *)
(***************************************************************************)
\* C32: a string sent in a group, not as a reply to the bot, is responded
\* to as the text of a message exactly when it is responded to as the
\* caption of a photo, and then both handlers found the same trigger command
\* and are left with the same text after it.
C32_SameTriggerMatching ==
    tr_pc = "routed" =>
        /\ text_routing[1].should_respond = photo_routing[1].should_respond
        /\ text_routing[1].should_respond =>
              /\ text_routing[1].trigger = photo_routing[1].trigger
              /\ text_routing[1].text = photo_routing[1].caption

====
